---- MODULE Spec2Model ----
(***************************************************************************)
(* canvas-engine: the Engine (state flag, interval simulation loop,        *)
(* animation-frame render chain), the GameObject kinematics and the        *)
(* ParticleEmitter, in the two variants the repository holds:              *)
(*   "lib"   the library file (numeric states table, Engine.createEmitter) *)
(*   "index" src/index.js (string states table, demo ParticleEmitter)      *)
(* State values are written by name ("INIT" .. "END") in both variants;    *)
(* the lib file stores them as 0..4, src/index.js as the same strings.     *)
(* JavaScript null / undefined is written NULL.                            *)
(***************************************************************************)
EXTENDS Integers, Sequences, FiniteSets, TLC

VARIABLES
  variant,     \* which source file is loaded: "lib" or "index"
  state,       \* state[e]: this.state of engine e
  last,        \* states.last, one cell shared by every engine of the file
  renderFn,    \* renderFn[e]: 0 = this.render undefined, k = closure of the k-th start body
  timers,      \* timers[e]: interval timers installed by setInterval
  pending,     \* pending[e]: render callbacks waiting for the next animation frame
  ev,          \* the last operation or callback and what it invoked
  settings,    \* the settings object the emitter constructor was given
  emitterLive, \* TRUE iff the emitter constructor returned an object
  limit,       \* this.limit
  source,      \* this.source
  spread,      \* this.spread
  speed,       \* this.speed
  size,        \* this.size
  particles,   \* this.particles
  nextId,      \* identity given to the next GameObject allocated
  emits,       \* emit() calls made so far
  bornAt,      \* history: bornAt[id] = the value of emits when particle id was created
  prev,        \* history: prev[e] = the state e held before its own latest state assignment
  obj,         \* a GameObject driven through its own methods
  oev,         \* the last method called on obj, its arguments and whether it threw
  moves        \* move() calls made on obj

engineVars == <<state, last, renderFn, timers, pending, ev, prev>>
emitterVars == <<settings, emitterLive, limit, source, spread, speed, size, particles, nextId,
                 emits, bornAt>>
objectVars == <<obj, oev, moves>>
vars == <<variant, state, last, renderFn, timers, pending, ev,
          settings, emitterLive, limit, source, spread, speed, size, particles, nextId, emits,
          bornAt, prev, obj, oev, moves>>

(***************************************************************************)
(* Bounds of the model.                                                    *)
(***************************************************************************)
MaxTimers == 2
MaxPending == 4
MaxLimit == 3
MaxEmits == 5
MaxMoves == 1

NULL == "NULL"
NoPrev == "NONE"
Variants == {"lib", "index"}
Engines == {"e1", "e2"}

(***************************************************************************)
(* The states table.                                                       *)
(***************************************************************************)
StateKeys == {"init", "start", "play", "pause", "end", "last"}
StateValues == {"INIT", "START", "PLAY", "PAUSE", "END"}

states(lst) ==
  [init |-> "INIT", start |-> "START", play |-> "PLAY",
   pause |-> "PAUSE", end |-> "END", last |-> lst]

\* Arguments tried on setState: every key, every value, null, and an unknown one.
SetStateArgs == StateKeys \cup StateValues \cup {NULL, "bogus"}

(***************************************************************************)
(* Engine.prototype.setState: the new this.state, the new states.last and  *)
(* whether the call threw.                                                 *)
(***************************************************************************)
setStateLib(st, lst, arg) ==
  LET vals == {states(lst)[k] : k \in StateKeys}
  IN  IF arg \in vals
        THEN [state |-> arg, last |-> st, threw |-> FALSE]
      ELSE IF arg \in StateKeys
        THEN [state |-> states(st)[arg], last |-> st, threw |-> FALSE]
      ELSE [state |-> st, last |-> lst, threw |-> TRUE]

setStateIndex(st, lst, arg) ==
  IF arg \in StateKeys
    THEN [state |-> states(st)[arg], last |-> st, threw |-> FALSE]
    ELSE [state |-> st, last |-> lst, threw |-> TRUE]

setState(v, st, lst, arg) ==
  IF v = "lib" THEN setStateLib(st, lst, arg) ELSE setStateIndex(st, lst, arg)

(***************************************************************************)
(* RENDER_LOOP and SIM_LOOP, the two callbacks start() builds: what one    *)
(* invocation does when this.state is st.                                  *)
(***************************************************************************)
RENDER_LOOP_NoPauseCheck(st) == [clears |-> 1, renders |-> 1, sched |-> 1]

RENDER_LOOP(st) ==
  IF st = "PAUSE"
    THEN [clears |-> 0, renders |-> 0, sched |-> 0]
    ELSE [clears |-> 1, renders |-> 1, sched |-> 1]

SIM_LOOP(st) == IF st = "PAUSE" THEN 0 ELSE 1

NoEvent ==
  [op |-> "none", eng |-> "e1", pre |-> "INIT", arg |-> NULL, ran |-> FALSE,
   threw |-> FALSE, steps |-> 0, loops |-> 0, clears |-> 0, renders |-> 0]

(***************************************************************************)
(* Engine.prototype.start: the engine's fields after the call.             *)
(***************************************************************************)
startAlways(v, st, lst, rf, tm, pd) ==
  LET s == IF v = "lib" THEN setState(v, st, lst, "START")
                        ELSE [state |-> st, last |-> lst, threw |-> FALSE]
  IN  [state |-> s.state, last |-> s.last, renderFn |-> tm + 1,
       timers |-> tm + 1, pending |-> pd + 1, ran |-> TRUE]

start(v, st, lst, rf, tm, pd) ==
  IF st = "INIT"
    THEN LET s == IF v = "lib" THEN setState(v, st, lst, "START")
                               ELSE [state |-> st, last |-> lst, threw |-> FALSE]
         IN  [state |-> s.state, last |-> s.last, renderFn |-> tm + 1,
              timers |-> tm + 1, pending |-> pd + 1, ran |-> TRUE]
    ELSE [state |-> st, last |-> lst, renderFn |-> rf,
          timers |-> tm, pending |-> pd, ran |-> FALSE]

(***************************************************************************)
(* Engine.prototype.togglePause: the engine's fields after the call, what  *)
(* the synchronous render step invoked, and whether the call threw (the    *)
(* call of an undefined this.render).                                      *)
(***************************************************************************)
togglePauseNoRender(v, st, lst, rf, pd) ==
  LET to == IF st = "PAUSE" THEN "PLAY" ELSE "PAUSE"
      s == IF v = "lib" THEN setState(v, st, lst, to)
                        ELSE [state |-> to, last |-> lst, threw |-> FALSE]
  IN  [state |-> s.state, last |-> s.last, pending |-> pd, threw |-> FALSE,
       steps |-> 0, clears |-> 0, renders |-> 0]

togglePause(v, st, lst, rf, pd) ==
  IF st = "PAUSE"
    THEN LET s == IF v = "lib" THEN setState(v, st, lst, "PLAY")
                               ELSE [state |-> "PLAY", last |-> lst, threw |-> FALSE]
             r == RENDER_LOOP(s.state)
         IN  IF rf = 0
               THEN [state |-> s.state, last |-> s.last, pending |-> pd, threw |-> TRUE,
                     steps |-> 0, clears |-> 0, renders |-> 0]
               ELSE [state |-> s.state, last |-> s.last, pending |-> pd + r.sched,
                     threw |-> FALSE, steps |-> 1, clears |-> r.clears, renders |-> r.renders]
    ELSE LET s == IF v = "lib" THEN setState(v, st, lst, "PAUSE")
                               ELSE [state |-> "PAUSE", last |-> lst, threw |-> FALSE]
         IN  [state |-> s.state, last |-> s.last, pending |-> pd, threw |-> FALSE,
              steps |-> 0, clears |-> 0, renders |-> 0]

(***************************************************************************)
(* Engine actions.                                                         *)
(***************************************************************************)
EngineInit ==
  /\ state = [e \in Engines |-> "INIT"]
  /\ last = NULL
  /\ renderFn = [e \in Engines |-> 0]
  /\ timers = [e \in Engines |-> 0]
  /\ pending = [e \in Engines |-> 0]
  /\ ev = NoEvent
  /\ prev = [e \in Engines |-> NoPrev]

Start(e) ==
  LET r == start(variant, state[e], last, renderFn[e], timers[e], pending[e])
  IN  /\ r.timers <= MaxTimers
      /\ r.pending <= MaxPending
      /\ state' = [state EXCEPT ![e] = r.state]
      /\ last' = r.last
      /\ renderFn' = [renderFn EXCEPT ![e] = r.renderFn]
      /\ timers' = [timers EXCEPT ![e] = r.timers]
      /\ pending' = [pending EXCEPT ![e] = r.pending]
      /\ ev' = [NoEvent EXCEPT !.op = "start", !.eng = e, !.pre = state[e], !.ran = r.ran]
      /\ prev' = IF r.ran /\ variant = "lib" THEN [prev EXCEPT ![e] = state[e]] ELSE prev
      /\ UNCHANGED <<variant, emitterVars, objectVars>>

TogglePause(e) ==
  LET r == togglePause(variant, state[e], last, renderFn[e], pending[e])
  IN  /\ r.pending <= MaxPending
      /\ state' = [state EXCEPT ![e] = r.state]
      /\ last' = r.last
      /\ pending' = [pending EXCEPT ![e] = r.pending]
      /\ ev' = [NoEvent EXCEPT !.op = "togglePause", !.eng = e, !.pre = state[e],
                               !.ran = TRUE, !.threw = r.threw, !.steps = r.steps,
                               !.clears = r.clears, !.renders = r.renders]
      /\ prev' = [prev EXCEPT ![e] = state[e]]
      /\ UNCHANGED <<variant, renderFn, timers, emitterVars, objectVars>>

SetState(e) ==
  \E arg \in SetStateArgs :
    LET r == setState(variant, state[e], last, arg)
    IN  /\ state' = [state EXCEPT ![e] = r.state]
        /\ last' = r.last
        /\ ev' = [NoEvent EXCEPT !.op = "setState", !.eng = e, !.pre = state[e],
                                 !.arg = arg, !.ran = TRUE, !.threw = r.threw]
        /\ prev' = IF r.threw THEN prev ELSE [prev EXCEPT ![e] = state[e]]
        /\ UNCHANGED <<variant, renderFn, timers, pending, emitterVars, objectVars>>

\* One display frame: every render callback pending for it runs, in one task.
Frame(e) ==
  LET r == RENDER_LOOP(state[e])
      n == pending[e]
  IN  /\ n > 0
      /\ pending' = [pending EXCEPT ![e] = n * r.sched]
      /\ ev' = [NoEvent EXCEPT !.op = "frame", !.eng = e, !.pre = state[e], !.ran = TRUE,
                               !.steps = n, !.clears = n * r.clears,
                               !.renders = n * r.renders]
      /\ UNCHANGED <<variant, state, last, renderFn, timers, prev, emitterVars, objectVars>>

\* One firing of one installed interval timer.
SimTick(e) ==
  /\ timers[e] > 0
  /\ ev' = [NoEvent EXCEPT !.op = "tick", !.eng = e, !.pre = state[e], !.ran = TRUE,
                           !.steps = 1, !.loops = SIM_LOOP(state[e])]
  /\ UNCHANGED <<variant, state, last, renderFn, timers, pending, prev, emitterVars,
                 objectVars>>

(***************************************************************************)
(* JavaScript values as the setters see them.  A number is finite, NaN or  *)
(* an infinity (typeof gives "number" for all three); Str stands for any   *)
(* value of another type, Undef for an omitted argument.  Arithmetic and   *)
(* comparison follow IEEE 754: NaN absorbs, Infinity * 0 is NaN, every     *)
(* comparison with NaN is false.                                           *)
(***************************************************************************)
Fin(n) == [k |-> "fin", n |-> n]
NaN == [k |-> "nan", n |-> 0]
PosInf == [k |-> "inf", n |-> 1]
NegInf == [k |-> "inf", n |-> -1]
Str == [k |-> "str", n |-> 0]
Undef == [k |-> "undef", n |-> 0]

typeof(v) ==
  IF v.k \in {"fin", "nan", "inf"} THEN "number"
  ELSE IF v.k = "str" THEN "string" ELSE "undefined"

Sgn(n) == IF n > 0 THEN 1 ELSE IF n < 0 THEN -1 ELSE 0

jsAdd(a, b) ==
  IF a.k = "nan" \/ b.k = "nan" THEN NaN
  ELSE IF a.k = "inf" /\ b.k = "inf" THEN (IF a.n = b.n THEN a ELSE NaN)
  ELSE IF a.k = "inf" THEN a
  ELSE IF b.k = "inf" THEN b
  ELSE Fin(a.n + b.n)

jsMul(a, b) ==
  IF a.k = "nan" \/ b.k = "nan" THEN NaN
  ELSE IF a.k = "inf" \/ b.k = "inf"
    THEN (IF Sgn(a.n) * Sgn(b.n) = 0 THEN NaN
          ELSE [k |-> "inf", n |-> Sgn(a.n) * Sgn(b.n)])
  ELSE Fin(a.n * b.n)

jsLt(a, b) ==
  IF a.k = "nan" \/ b.k = "nan" THEN FALSE
  ELSE IF a.k = "inf" /\ b.k = "inf" THEN a.n < b.n
  ELSE IF a.k = "inf" THEN a.n < 0
  ELSE IF b.k = "inf" THEN b.n > 0
  ELSE a.n < b.n

(***************************************************************************)
(* GameObject: construction and the fluent setters and move(), on a        *)
(* record of the object's fields.  The draw routine and the colour touch   *)
(* no kinematic field and are left out.  Each setter gives the object      *)
(* after the call (unchanged when the call throws); its *Throws companion  *)
(* says whether the call throws.                                           *)
(***************************************************************************)
GameObject(id) ==
  [id |-> id, position |-> [x |-> Fin(0), y |-> Fin(0)],
   velocity |-> [x |-> Fin(0), y |-> Fin(0)],
   acceleration |-> Fin(0), size |-> [width |-> Fin(0), height |-> Fin(0)]]

\* A parameter default: the default replaces an omitted (undefined) argument only.
OrDefault(v, d) == IF v.k = "undef" THEN d ELSE v

setSize(o, width, height) ==
  [o EXCEPT !.size = [width |-> width, height |-> OrDefault(height, width)]]

setPositionThrows(o, x, y) ==
  \/ typeof(OrDefault(x, o.position.x)) # "number"
  \/ typeof(OrDefault(y, o.position.y)) # "number"

setPositionBothAxesFromX(o, x, y) ==
  IF setPositionThrows(o, x, y) THEN o
  ELSE [o EXCEPT !.position = [x |-> OrDefault(x, o.position.x),
                               y |-> OrDefault(y, OrDefault(x, o.position.x))]]

setPosition(o, x, y) ==
  IF setPositionThrows(o, x, y) THEN o
  ELSE [o EXCEPT !.position = [x |-> OrDefault(x, o.position.x),
                               y |-> OrDefault(y, o.position.y)]]

setVelocityThrows(o, x, y) ==
  \/ typeof(OrDefault(x, o.velocity.x)) # "number"
  \/ typeof(OrDefault(y, o.velocity.y)) # "number"

setVelocity(o, x, y) ==
  IF setVelocityThrows(o, x, y) THEN o
  ELSE [o EXCEPT !.velocity = [x |-> OrDefault(x, o.velocity.x),
                               y |-> OrDefault(y, o.velocity.y)]]

setAccelerationThrows(o, a) ==
  \/ typeof(a) # "number"
  \/ jsLt(a, Fin(0))
  \/ jsLt(Fin(1), a)

setAcceleration(o, a) ==
  IF setAccelerationThrows(o, a) THEN o ELSE [o EXCEPT !.acceleration = a]

move(o) ==
  [o EXCEPT !.position = [x |-> jsAdd(o.position.x, jsMul(o.velocity.x, o.acceleration)),
                          y |-> jsAdd(o.position.y, jsMul(o.velocity.y, o.acceleration))]]

(***************************************************************************)
(* randomInRange(max, min): Math.floor(Math.random() * (max - min + 1))    *)
(* + min with Math.random() in [0, 1): the set of values it can return.    *)
(***************************************************************************)
randomInRange(max, min) == IF max >= min THEN min .. max ELSE (max + 1) .. min

Abs(n) == IF n < 0 THEN 0 - n ELSE n

(***************************************************************************)
(* Literals of the two emitter constructors.                               *)
(***************************************************************************)
DefaultSpeed == 10
DefaultSize == 2
DefaultSpreadHigh == 3
DefaultSpreadLow == -3
IndexSourceX == 300
IndexSourceY == 200
IndexSize == 3
IndexSpeed == 10
IndexSpreadHigh == 3
IndexSpreadLow == -3

(***************************************************************************)
(* The settings objects the emitter constructor is tried on.  has* says    *)
(* whether the key is present; init is the pre-seed flag.                  *)
(***************************************************************************)
Settings(hp, px, py, hs, sp, hr, hi, lo, init) ==
  [hasPosition |-> hp, position |-> [x |-> px, y |-> py], hasSpeed |-> hs, speed |-> sp,
   hasSpread |-> hr, spread |-> [high |-> hi, low |-> lo], init |-> init]

SettingsTried ==
  { Settings(FALSE, 0, 0, FALSE, 0, FALSE, 0, 0, FALSE),
    Settings(FALSE, 0, 0, FALSE, 0, FALSE, 0, 0, TRUE),
    Settings(TRUE, 5, 2, FALSE, 0, FALSE, 0, 0, FALSE),
    Settings(TRUE, 0, 0, TRUE, -2, TRUE, 1, -1, FALSE),
    Settings(TRUE, 0, 0, TRUE, -2, TRUE, 1, -1, TRUE),
    Settings(TRUE, 5, 2, TRUE, 1, TRUE, 0, 0, TRUE),
    Settings(TRUE, 0, 0, FALSE, 0, TRUE, -1, 1, FALSE) }

\* src/index.js takes no settings: its constructor always pre-seeds one particle.
IndexSettings ==
  Settings(TRUE, IndexSourceX, IndexSourceY, TRUE, IndexSpeed,
           TRUE, IndexSpreadHigh, IndexSpreadLow, TRUE)

(***************************************************************************)
(* createParticle: the GameObject built from the emitter's fields, with vy *)
(* the value randomInRange returned.                                       *)
(***************************************************************************)
createParticleAtOrigin(id, src, spd, sz, vy) ==
  setAcceleration(setVelocity(setSize(GameObject(id), Fin(sz), Undef),
                              Fin(spd), Fin(vy)), Fin(1))

createParticle(id, src, spd, sz, vy) ==
  setAcceleration(setVelocity(setPosition(setSize(GameObject(id), Fin(sz), Undef),
                                          Fin(src.x), Fin(src.y)),
                              Fin(spd), Fin(vy)), Fin(1))

(***************************************************************************)
(* The emitter constructor: the fields of the new emitter before the       *)
(* particle list is seeded, and whether the constructor threw (reading     *)
(* position.x of an undefined position).                                   *)
(***************************************************************************)
ParticleEmitter(v, lim, s) ==
  IF v = "index"
    THEN [threw |-> FALSE, limit |-> lim,
          source |-> [x |-> IndexSourceX, y |-> IndexSourceY],
          spread |-> [high |-> IndexSpreadHigh, low |-> IndexSpreadLow],
          speed |-> IndexSpeed, size |-> IndexSize, seed |-> TRUE]
    ELSE [threw |-> ~s.hasPosition, limit |-> lim,
          source |-> [x |-> s.position.x, y |-> s.position.y],
          spread |-> IF s.hasSpread THEN [high |-> s.spread.high, low |-> s.spread.low]
                                    ELSE [high |-> DefaultSpreadHigh, low |-> DefaultSpreadLow],
          speed |-> IF s.hasSpeed THEN Abs(s.speed) ELSE DefaultSpeed,
          size |-> DefaultSize, seed |-> s.init]

\* The particle list after emit(), the new particle (if one is made) having velocity.y = vy.
emitNoMove(ps, lim, id, src, spd, sz, vy) ==
  IF Len(ps) < lim
    THEN Append(ps, createParticle(id, src, spd, sz, vy))
    ELSE IF Len(ps) = 0 THEN ps ELSE SubSeq(ps, 2, Len(ps))

emit(ps, lim, id, src, spd, sz, vy) ==
  LET moved == [i \in 1 .. Len(ps) |-> move(ps[i])]
  IN  IF Len(moved) < lim
        THEN Append(moved, createParticle(id, src, spd, sz, vy))
        ELSE IF Len(moved) = 0 THEN moved ELSE SubSeq(moved, 2, Len(moved))

(***************************************************************************)
(* Emitter actions.                                                        *)
(***************************************************************************)
NoEmitter ==
  /\ settings = Settings(FALSE, 0, 0, FALSE, 0, FALSE, 0, 0, FALSE)
  /\ emitterLive = FALSE
  /\ limit = 0
  /\ source = [x |-> 0, y |-> 0]
  /\ spread = [high |-> 0, low |-> 0]
  /\ speed = 0
  /\ size = 0
  /\ particles = <<>>
  /\ nextId = 1
  /\ emits = 0
  /\ bornAt = <<>>

\* The state after `Engine.createEmitter(lim, s)` (lib) or `ParticleEmitter(lim)` (index).
EmitterInit ==
  \E lim \in 0 .. MaxLimit :
    \E s \in IF variant = "index" THEN {IndexSettings} ELSE SettingsTried :
      LET c == ParticleEmitter(variant, lim, s)
      IN  /\ settings = s
          /\ emitterLive = ~c.threw
          /\ limit = c.limit
          /\ source = c.source
          /\ spread = c.spread
          /\ speed = c.speed
          /\ size = c.size
          /\ emits = 0
          /\ IF c.threw \/ ~c.seed
               THEN particles = <<>> /\ nextId = 1 /\ bornAt = <<>>
               ELSE /\ \E vy \in randomInRange(c.spread.high, c.spread.low) :
                         particles = <<createParticle(1, c.source, c.speed, c.size, vy)>>
                    /\ nextId = 2
                    /\ bornAt = <<0>>

Emit ==
  /\ emitterLive
  /\ emits < MaxEmits
  /\ \E vy \in randomInRange(spread.high, spread.low) :
       particles' = emit(particles, limit, nextId, source, speed, size, vy)
  /\ nextId' = IF Len(particles) < limit THEN nextId + 1 ELSE nextId
  /\ emits' = emits + 1
  /\ bornAt' = IF Len(particles) < limit THEN Append(bornAt, emits + 1) ELSE bornAt
  /\ UNCHANGED <<variant, engineVars, objectVars,
                 settings, emitterLive, limit, source, spread, speed, size>>

(***************************************************************************)
(* GameObject actions: one object, constructed with a draw routine and no  *)
(* init callback, driven through its setters and move().                   *)
(***************************************************************************)
CoordArgs == {Fin(3), PosInf, Str, Undef}
AccelArgs == {Fin(-1), Fin(0), Fin(1), Fin(2), NaN, Str}
WidthArgs == {Fin(4)}
HeightArgs == {Fin(2), Undef}

NoCall == [op |-> "none", a |-> Undef, b |-> Undef, threw |-> FALSE]

ObjectInit ==
  /\ obj = GameObject(1)
  /\ oev = NoCall
  /\ moves = 0

ObjSetPosition ==
  \E x \in CoordArgs, y \in CoordArgs :
    /\ obj' = setPosition(obj, x, y)
    /\ oev' = [op |-> "setPosition", a |-> x, b |-> y, threw |-> setPositionThrows(obj, x, y)]
    /\ UNCHANGED <<variant, engineVars, emitterVars, moves>>

ObjSetVelocity ==
  \E x \in CoordArgs, y \in CoordArgs :
    /\ obj' = setVelocity(obj, x, y)
    /\ oev' = [op |-> "setVelocity", a |-> x, b |-> y, threw |-> setVelocityThrows(obj, x, y)]
    /\ UNCHANGED <<variant, engineVars, emitterVars, moves>>

ObjSetAcceleration ==
  \E a \in AccelArgs :
    /\ obj' = setAcceleration(obj, a)
    /\ oev' = [op |-> "setAcceleration", a |-> a, b |-> Undef,
               threw |-> setAccelerationThrows(obj, a)]
    /\ UNCHANGED <<variant, engineVars, emitterVars, moves>>

ObjSetSize ==
  \E w \in WidthArgs, h \in HeightArgs :
    /\ obj' = setSize(obj, w, h)
    /\ oev' = [op |-> "setSize", a |-> w, b |-> h, threw |-> FALSE]
    /\ UNCHANGED <<variant, engineVars, emitterVars, moves>>

ObjMove ==
  /\ moves < MaxMoves
  /\ obj' = move(obj)
  /\ oev' = [NoCall EXCEPT !.op = "move"]
  /\ moves' = moves + 1
  /\ UNCHANGED <<variant, engineVars, emitterVars>>

(***************************************************************************)
(* Specifications.                                                         *)
(*   Spec        one engine under start, togglePause, setState, frames     *)
(*               and interval ticks                                        *)
(*   SpecToggle  the same without setState                                 *)
(*   FairToggle  SpecToggle with frames delivered fairly                   *)
(*   SpecEmitter one emitter under emit()                                  *)
(*   SpecObject  one GameObject under its setters and move()               *)
(*   SpecMulti   two engines under start, togglePause and setState         *)
(***************************************************************************)
Init ==
  /\ variant \in Variants
  /\ EngineInit
  /\ NoEmitter
  /\ ObjectInit

Next ==
  \/ Start("e1")
  \/ TogglePause("e1")
  \/ SetState("e1")
  \/ Frame("e1")
  \/ SimTick("e1")

Spec == Init /\ [][Next]_vars

NextToggle ==
  \/ Start("e1")
  \/ TogglePause("e1")
  \/ Frame("e1")
  \/ SimTick("e1")

SpecToggle == Init /\ [][NextToggle]_vars

FairToggle == Init /\ [][NextToggle]_vars /\ WF_vars(Frame("e1"))

InitEmitter ==
  /\ variant \in Variants
  /\ EngineInit
  /\ EmitterInit
  /\ ObjectInit

NextEmitter == Emit

SpecEmitter == InitEmitter /\ [][NextEmitter]_vars

NextObject ==
  \/ ObjSetPosition
  \/ ObjSetVelocity
  \/ ObjSetAcceleration
  \/ ObjSetSize
  \/ ObjMove

\* The GameObject code is the same in both files.
InitObject ==
  /\ variant = "lib"
  /\ EngineInit
  /\ NoEmitter
  /\ ObjectInit

SpecObject == InitObject /\ [][NextObject]_vars

\* Arguments tried on setState when two engines run side by side.
MultiArgs == {"play", "bogus"}

SetStateMulti(e) ==
  \E arg \in MultiArgs :
    LET r == setState(variant, state[e], last, arg)
    IN  /\ state' = [state EXCEPT ![e] = r.state]
        /\ last' = r.last
        /\ ev' = [NoEvent EXCEPT !.op = "setState", !.eng = e, !.pre = state[e],
                                 !.arg = arg, !.ran = TRUE, !.threw = r.threw]
        /\ prev' = IF r.threw THEN prev ELSE [prev EXCEPT ![e] = state[e]]
        /\ UNCHANGED <<variant, renderFn, timers, pending, emitterVars, objectVars>>

NextMulti ==
  \E e \in Engines :
    \/ Start(e)
    \/ TogglePause(e)
    \/ SetStateMulti(e)

\* states.last is shared between the engines of one file; the lib file is taken.
InitMulti ==
  /\ variant = "lib"
  /\ EngineInit
  /\ NoEmitter
  /\ ObjectInit

SpecMulti == InitMulti /\ [][NextMulti]_vars

(***************************************************************************)
(* Properties.                                                             *)
(***************************************************************************)
Min(a, b) == IF a < b THEN a ELSE b

Started(e) == renderFn[e] # 0

Ids(ps) == [i \in 1 .. Len(ps) |-> ps[i].id]

\* C1: for every capacity >= 0, pre-seeded or not, particles.length <= capacity
\* holds after construction and after every number of emit() calls.
C1_LengthWithinCapacity == emitterLive => Len(particles) <= limit

\* C2: an emitter constructed empty with capacity N >= 1 holds min(k, N)
\* particles after k emit() calls.
C2_LengthIsMinOfCallsAndCapacity ==
  (emitterLive /\ ~settings.init /\ limit >= 1) => Len(particles) = Min(emits, limit)

\* C3: an emit() call made while particles.length = capacity (>= 1) keeps the
\* length, drops the particle at index 0, appends one freshly created particle
\* and keeps the others in their order.
C3_EmitAtCapacityReplacesOne ==
  [][(emits' = emits + 1 /\ limit >= 1 /\ Len(particles) = limit) =>
       /\ Len(particles') = limit
       /\ \A i \in 1 .. Len(particles') : particles'[i].id # particles[1].id
       /\ particles'[Len(particles')].id = nextId
       /\ nextId' = nextId + 1
       /\ SubSeq(Ids(particles'), 1, limit - 1) = SubSeq(Ids(particles), 2, limit)]_vars

\* C4: an interval tick invokes loop() exactly once iff state # PAUSE at the
\* tick, and every render step (of a frame, or the synchronous one of
\* togglePause) clears and invokes render(context) iff state # PAUSE at the
\* step; nothing is invoked while state = PAUSE.
C4_CallbacksOnlyWhileNotPaused ==
  /\ ev.op = "tick" => ev.loops = (IF ev.pre = "PAUSE" THEN 0 ELSE 1)
  /\ ev.op = "frame" =>
       /\ ev.clears = (IF ev.pre = "PAUSE" THEN 0 ELSE ev.steps)
       /\ ev.renders = (IF ev.pre = "PAUSE" THEN 0 ELSE ev.steps)
  /\ (ev.op = "togglePause" /\ ev.steps > 0) =>
       /\ state[ev.eng] # "PAUSE"
       /\ ev.clears = ev.steps
       /\ ev.renders = ev.steps
  /\ ev.op \notin {"tick", "frame", "togglePause"} =>
       ev.loops = 0 /\ ev.clears = 0 /\ ev.renders = 0

\* A frame was delivered to a started engine while it was paused.
C4_Witness ==
  /\ ev.op = "frame"
  /\ ev.pre = "PAUSE"
  /\ ev.steps >= 1
  /\ ev.renders = 0
  /\ Started("e1")

\* C5: on a started engine togglePause() from a non-paused state pauses,
\* the next togglePause() returns to PLAY with exactly one synchronous render
\* step; a started engine that is not paused always has a render callback
\* pending; and with frames delivered fairly every unpause is followed by a
\* frame that invokes render(context), unless the engine is paused again first.
C5_UnpauseRevivesRenderChain ==
  /\ [][(Started("e1") /\ state'["e1"] # state["e1"] /\ ev'.op = "togglePause") =>
          IF state["e1"] = "PAUSE"
            THEN /\ state'["e1"] = "PLAY"
                 /\ ev'.steps = 1 /\ ev'.clears = 1 /\ ev'.renders = 1
                 /\ pending'["e1"] = pending["e1"] + 1
            ELSE /\ state'["e1"] = "PAUSE"
                 /\ ev'.steps = 0 /\ ev'.renders = 0
                 /\ pending'["e1"] = pending["e1"]]_vars
  /\ [](Started("e1") /\ state["e1"] # "PAUSE" => pending["e1"] >= 1)
  /\ (Started("e1") /\ ev.op = "togglePause" /\ ev.pre = "PAUSE")
       ~> (state["e1"] = "PAUSE" \/ (ev.op = "frame" /\ ev.renders >= 1))

\* The engine was unpaused before the frame scheduled earlier had fired.
C5_Witness ==
  /\ Started("e1")
  /\ ev.op = "togglePause"
  /\ ev.pre = "PAUSE"
  /\ state["e1"] = "PLAY"
  /\ ev.renders = 1
  /\ pending["e1"] >= 2

\* C6: an engine started once has at most one render callback pending, and a
\* display frame invokes render(context) at most once.
C6_AtMostOnePendingRender ==
  timers["e1"] = 1 =>
    /\ pending["e1"] <= 1
    /\ ev.op = "frame" => ev.renders <= 1

\* C7: under start() and togglePause() the only state changes of a lib engine
\* are INIT->START by start and START->PAUSE, PLAY->PAUSE, PAUSE->PLAY by
\* togglePause.
C7_OnlySpecStateChanges ==
  [][(variant = "lib" /\ state'["e1"] # state["e1"]) =>
       <<state["e1"], state'["e1"], ev'.op>> \in
         { <<"INIT", "START", "start">>,
           <<"START", "PAUSE", "togglePause">>,
           <<"PLAY", "PAUSE", "togglePause">>,
           <<"PAUSE", "PLAY", "togglePause">> }]_vars

\* C8: the body of start() runs at most once per engine, so at most one
\* interval timer is ever installed.
C8_StartBodyRunsAtMostOnce == timers["e1"] <= 1

\* C9: start() called while state # INIT changes nothing (state, states.last,
\* the stored render step, the timers, the pending frame callbacks) and
\* invokes neither callback.
C9_StartOutsideInitIsNoOp ==
  [][(ev'.op = "start" /\ state["e1"] # "INIT") =>
       /\ state' = state
       /\ last' = last
       /\ renderFn' = renderFn
       /\ timers' = timers
       /\ pending' = pending
       /\ ~ev'.ran
       /\ ev'.loops = 0 /\ ev'.clears = 0 /\ ev'.renders = 0]_vars

\* start() was called on an engine that had been started and then paused.
C9_Witness ==
  /\ ev.op = "start"
  /\ ev.pre = "PAUSE"
  /\ ~ev.ran
  /\ timers["e1"] = 1

\* C10: the engine's state is always one of INIT, START, PLAY, PAUSE, END.
C10_StateIsKnown == state["e1"] \in StateValues

StateNames == {"init", "start", "play", "pause", "end"}

\* C11: setState with an argument that is neither a state name nor a state
\* value raises an error and leaves state and states.last as they were; a
\* successful setState leaves states.last equal to the state held before the call.
C11_SetStateErrorLeavesAllUnchanged ==
  [][ev'.op = "setState" =>
       /\ ev'.arg \notin (StateNames \cup StateValues) =>
            (ev'.threw /\ state' = state /\ last' = last)
       /\ ~ev'.threw => last' = state["e1"]]_vars

\* C12: togglePause() never raises an error, also when called before start().
C12_TogglePauseNeverThrows == ev.op = "togglePause" => ~ev.threw

InUnit(v) == v.k = "fin" /\ 0 <= v.n /\ v.n <= 1

\* C13: the acceleration of an object mutated through its setters is always
\* within [0,1]; setAcceleration raises an error exactly for the arguments
\* outside [0,1] or not numbers, and stores the others.
C13_AccelerationWithinUnitInterval ==
  /\ InUnit(obj.acceleration)
  /\ oev.op = "setAcceleration" =>
       /\ oev.threw <=> ~InUnit(oev.a)
       /\ ~oev.threw => obj.acceleration = oev.a

ZeroVector(v) == v.x = Fin(0) /\ v.y = Fin(0)

\* C14: move() replaces position by position + velocity * acceleration per
\* axis, leaves velocity, acceleration and size alone, and leaves position
\* itself alone whenever velocity is zero or acceleration is zero.
C14_MoveIntegratesAndKeepsRest ==
  [][oev'.op = "move" =>
       /\ obj'.position.x = jsAdd(obj.position.x, jsMul(obj.velocity.x, obj.acceleration))
       /\ obj'.position.y = jsAdd(obj.position.y, jsMul(obj.velocity.y, obj.acceleration))
       /\ obj'.velocity = obj.velocity
       /\ obj'.acceleration = obj.acceleration
       /\ obj'.size = obj.size
       /\ (ZeroVector(obj.velocity) \/ obj.acceleration = Fin(0)) =>
            obj'.position = obj.position]_vars

\* What C15 says of a particle p just made by an emitter with low <= high.
FreshParticleOk(p) ==
  /\ p.position = [x |-> Fin(source.x), y |-> Fin(source.y)]
  /\ p.velocity.x = Fin(speed)
  /\ speed >= 0
  /\ (variant = "lib" /\ settings.hasSpeed) => speed \in {settings.speed, 0 - settings.speed}
  /\ p.velocity.y.k = "fin"
  /\ spread.low <= p.velocity.y.n
  /\ p.velocity.y.n <= spread.high
  /\ p.acceleration = Fin(1)

C16_OmittedSettingsFallBack ==
  variant = "lib" =>
    /\ ~settings.hasPosition => (emitterLive /\ source = [x |-> 0, y |-> 0])
    /\ ~settings.hasSpeed => speed = DefaultSpeed
    /\ ~settings.hasSpread => spread = [high |-> DefaultSpreadHigh, low |-> DefaultSpreadLow]
    /\ (~settings.init /\ emits = 0) => particles = <<>>

\* What C17 says of a call set(o, x, y) of a two-coordinate setter whose
\* current value is cur, with outcome o2 and threw.
SetterOk(cur, x, y, new, threw) ==
  LET rx == IF x = Undef THEN cur.x ELSE x
      ry == IF y = Undef THEN cur.y ELSE y
      bad == typeof(rx) # "number" \/ typeof(ry) # "number"
  IN  /\ threw <=> bad
      /\ bad => new = cur
      /\ ~bad => new = [x |-> rx, y |-> ry]

\* C17: setPosition and setVelocity keep each omitted coordinate and replace
\* the supplied ones; when a resolved coordinate is not of type number the call
\* raises an error and leaves the vector unchanged; no other field changes.
C17_SettersKeepOmittedCoordinates ==
  [][/\ oev'.op = "setPosition" =>
          /\ SetterOk(obj.position, oev'.a, oev'.b, obj'.position, oev'.threw)
          /\ obj' = [obj EXCEPT !.position = obj'.position]
     /\ oev'.op = "setVelocity" =>
          /\ SetterOk(obj.velocity, oev'.a, oev'.b, obj'.velocity, oev'.threw)
          /\ obj' = [obj EXCEPT !.velocity = obj'.velocity]]_vars

\* setPosition({y: 3}) was called on an object whose x had been set before.
C17_Witness ==
  /\ oev.op = "setPosition"
  /\ oev.a = Undef
  /\ oev.b = Fin(3)
  /\ ~oev.threw
  /\ obj.position = [x |-> PosInf, y |-> Fin(3)]
  /\ obj.acceleration = Fin(1)

\* C18: a particle that has been through k emit() calls after the one that
\* created it is at source + k * (speed, velocity.y); the list is ordered by
\* creation, so position.x never increases along it.
C18_PositionsFollowAge ==
  emitterLive =>
    \A i \in 1 .. Len(particles) :
      LET p == particles[i]
          k == emits - bornAt[p.id]
      IN  /\ p.position.x = Fin(source.x + k * speed)
          /\ p.position.y = Fin(source.y + k * p.velocity.y.n)
          /\ \A j \in (i + 1) .. Len(particles) :
               /\ p.id < particles[j].id
               /\ bornAt[p.id] < bornAt[particles[j].id]
               /\ p.position.x.n >= particles[j].position.x.n

\* Two particles of different ages, the older one further along.
C18_Witness ==
  /\ emitterLive
  /\ Len(particles) >= 2
  /\ emits >= 3
  /\ particles[1].position.x.n > particles[2].position.x.n
  /\ particles[1].position.y # Fin(source.y)

\* C19: for every engine that has had a state assignment, states.last is the
\* state that engine held immediately before its own latest one.
C19_PreviousStateIsPerEngine ==
  \A e \in Engines : prev[e] # NoPrev => last = prev[e]

====
